---------------------------- MODULE Spec2Model ----------------------------
(***************************************************************************)
(* zrepl: the framed bulk-stream transport (rpc/dataconn/stream), its       *)
(* buffer pool (base2bufpool), the pruner state machine (daemon/pruner)     *)
(* and the pdu conversions (replication/pdu).                               *)
(*                                                                          *)
(* The specifications of this module:                                       *)
(*   SpecStream  one WriteStream and one ReadStream on the two ends of a    *)
(*               frame connection, each with its background goroutine and   *)
(*               its capacity-1 channel;                                    *)
(*   SpecPruner  one Pruner driven by Prune() against a target inventory    *)
(*               and a history source;                                      *)
(*   SpecPool    one base2bufpool.Pool and the callers of Get and Free;     *)
(*   SpecFactory NewPrunerFactory on a pair of configured rule sets;        *)
(*   SpecPdu     a zfs.FilesystemVersion converted to its wire form and     *)
(*               back.                                                      *)
(***************************************************************************)
EXTENDS Integers, Sequences, FiniteSets, TLC

(***************************************************************************)
(* Bounds of the model.                                                     *)
(***************************************************************************)
\* The buffer the producer fills per read is 1 << 19 bytes in the source
\* (WriteStream, bufpool.Get(1 << 19)); the model scales it down so that
\* sources below, equal to and above one and two buffers are enumerable.
BufSize == 2
\* Longest source byte sequence handed to WriteStream.
MaxLen == 4
\* Longest error message a failing source carries.
MaxMsgLen == 1
\* Most filesystems the target lists.
MaxFS == 2
\* Most versions (snapshots and bookmarks) in the whole inventory.
MaxVers == 2
\* The shifts a Pool is built for: New(minShift, maxShift).
minShift == 2
maxShift == 2
\* Largest size asked of Pool.Get.
MaxSize == 5
\* Most Buffers callers hold at a time.
MaxHeld == 3
\* Latest whole second of a creation time.
MaxSec == 11
\* Most keep rules configured for one side.
MaxRules == 2
\* The number pool.Put compares len(p.bufs) with is 10 in the source; the
\* model scales it down so that a sub-pool can be filled by MaxHeld Buffers.
PoolLimit == 2

\* Byte values: 34 is the double quote (escaped by %q), 101 is "e".
Bytes == {34, 101}

RECURSIVE SeqsUpTo(_, _)
SeqsUpTo(S, n) ==
    IF n = 0 THEN {<<>>}
    ELSE LET shorter == SeqsUpTo(S, n - 1)
         IN  shorter \cup {Append(s, x) : s \in {t \in shorter : Len(t) = n - 1}, x \in S}

Min(a, b) == IF a < b THEN a ELSE b

(***************************************************************************)
(* Stream: constants of the source.                                         *)
(***************************************************************************)
\* ^uint32(0) and ^uint32(1), that is 0xFFFFFFFF and 0xFFFFFFFE.  TLC's
\* integers are 32-bit signed, so each is written as the signed integer
\* with the same 32 bits.
SourceEOF == -1
SourceErr == -2

\* Frame types the callers use: 0 is the type WriteStream refuses, 7 and 8
\* are ordinary user types.
WriterTypes == {0, 7}
ReaderTypes == {7, 8}

\* error values
Nil == [k |-> "nil", msg |-> <<>>]
EOF == [k |-> "EOF", msg |-> <<>>]
ErrUnexpectedEOF == [k |-> "ErrUnexpectedEOF", msg |-> <<>>]
ErrShortWrite == [k |-> "ErrShortWrite", msg |-> <<>>]
ConnWriteErr == [k |-> "connWrite", msg |-> <<>>]
ConnReadErr == [k |-> "connRead", msg |-> <<>>]
SinkErr == [k |-> "sink", msg |-> <<>>]
SrcError(m) == [k |-> "src", msg |-> m]
UnexpectedType(t) == [k |-> "unexpectedType", msg |-> <<t>>]

Levels == {0, 1}

VARIABLES
    \* ---- stream ----
    srcData,    \* the bytes the source of the outer WriteStream yields
    srcEnd,     \* how that source ends: EOF or SrcError(message)
    wstype,     \* stype passed to WriteStream
    rstype,     \* stype passed to ReadStream
    rest,       \* per WriteStream invocation: bytes of its stream not yet read
    ppc,        \* per invocation: producer goroutine position
    pend,       \* per invocation: producer's local read{buffer, err}
    reads,      \* per invocation: the channel `reads` (capacity 1)
    closed,     \* per invocation: whether `reads` was closed
    wlevel,     \* 0: the caller's WriteStream, 1: the recursive one (trailer)
    wpc,        \* consumer position of the running invocation
    wcur,       \* consumer's loop variable `read`
    wret,       \* what the outer WriteStream returned
    sent,       \* every frame WriteFrame accepted, in order
    rpos,       \* number of frames ReadFrame has delivered
    connFault,  \* the connection may fail an operation
    sinkFault,  \* the receiver may fail: "none", "err", "short"
    gpc,        \* ReadStream's frame-reader goroutine position
    gcur,       \* that goroutine's local r
    rreads,     \* ReadStream's channel `reads` (capacity 1)
    rclosed,    \* whether it was closed
    rpc,        \* ReadStream consumer position
    rcur,       \* ReadStream's f
    rret,       \* what ReadStream returned
    sink,       \* bytes the receiver accepted
    \* ---- pruner ----
    inventory,      \* what the Target lists: filesystems and their versions,
                    \* each version with the status History has for it
    ctxErr,         \* ctx.Err() of the ambient context: Nil until it is done
    state,          \* Pruner.state
    err,            \* Pruner.err
    prunePending,   \* Pruner.prunePending
    pruneCompleted, \* Pruner.pruneCompleted
    panicked,       \* Prune() was aborted by a panic
    planned,        \* history: whether a statePlan succeeded, and the pfss it built
    lastCall,       \* history: the call that decided the last step, its error
    lastReq,        \* history: the last DestroySnapshotsReq issued
    destroyIssued,  \* history: filesystems a DestroySnapshots was issued for
    \* ---- buffer pool ----
    pools,          \* Pool.pools: per shift, the sub-pool's bufs
    held,           \* the Buffers callers hold, in the order they got them
    stale,          \* a copy of a Buffer a caller kept after freeing it
    lastGet,        \* history: the last Pool.Get, its argument, the length of
                    \* the result's Bytes() and of its storage
    poolPanicked,   \* a pool operation panicked
    \* ---- pruner factory ----
    keepSender,     \* in.KeepSender: the configured sender keep rules
    keepReceiver,   \* in.KeepReceiver: the configured receiver keep rules
    factory,        \* what NewPrunerFactory returned
    \* ---- pdu conversions ----
    zfsv,           \* an in-memory zfs.FilesystemVersion
    wire,           \* FilesystemVersionFromZFS(zfsv), once converted
    back            \* wire.ZFSFilesystemVersion(), once converted back

streamVars == <<srcData, srcEnd, wstype, rstype, rest, ppc, pend, reads, closed,
                wlevel, wpc, wcur, wret, sent, rpos, connFault, sinkFault,
                gpc, gcur, rreads, rclosed, rpc, rcur, rret, sink>>

prunerVars == <<inventory, ctxErr, state, err, prunePending, pruneCompleted,
                panicked, planned, lastCall, lastReq, destroyIssued>>

poolVars == <<pools, held, stale, lastGet, poolPanicked>>

factoryVars == <<keepSender, keepReceiver, factory>>

pduVars == <<zfsv, wire, back>>

auxVars == <<poolVars, factoryVars, pduVars>>

vars == <<streamVars, prunerVars, auxVars>>

NoRead == [buf |-> <<>>, err |-> Nil]
NoFrame == [type |-> 0, buf |-> <<>>, err |-> Nil]

NoPlan == [ok |-> FALSE, pfss |-> <<>>]
NoCall == [op |-> "", err |-> Nil]
NoReq == [Filesystem |-> "", Snapshots |-> <<>>]

\* The pruner fields as BuildSenderPruner / BuildReceiverPruner leave them.
InitPrunerVars ==
    /\ ctxErr = Nil
    /\ state = "Plan"
    /\ err = Nil
    /\ prunePending = <<>>
    /\ pruneCompleted = <<>>
    /\ panicked = FALSE
    /\ planned = NoPlan
    /\ lastCall = NoCall
    /\ lastReq = NoReq
    /\ destroyIssued = {}

\* The pruner variables while no pruner is modelled.
PrunerIdle ==
    /\ inventory = <<>>
    /\ InitPrunerVars

\* A Buffer: its storage (identity and length), payloadLen, and whether it
\* has a back reference to the Pool.  NoBuf stands for no Buffer.
NoBuf == [shiftBuf |-> [id |-> 0, len |-> 0], payloadLen |-> 0, pool |-> FALSE]
NoGet == [minSize |-> 0, bytesLen |-> 0, storageLen |-> 0, called |-> FALSE]

\* The pool variables while no pool is modelled.
PoolIdle ==
    /\ pools = <<>>
    /\ held = <<>>
    /\ stale = NoBuf
    /\ lastGet = NoGet
    /\ poolPanicked = FALSE

NoFactory == [called |-> FALSE, err |-> Nil, senderRules |-> <<>>, receiverRules |-> <<>>]

\* The factory variables while no factory is modelled.
FactoryIdle ==
    /\ keepSender = <<>>
    /\ keepReceiver = <<>>
    /\ factory = NoFactory

NoTime == [sec |-> 0, nsec |-> 0]
NoZfs == [done |-> FALSE, panic |-> FALSE, Type |-> "", Name |-> "", Guid |-> 0,
          CreateTXG |-> 0, Creation |-> NoTime]
NoWire == [done |-> FALSE, Type |-> "", Name |-> "", Guid |-> 0, CreateTXG |-> 0,
           Creation |-> <<>>]

\* The conversion variables while no conversion is modelled.
PduIdle ==
    /\ zfsv = NoZfs
    /\ wire = NoWire
    /\ back = NoZfs

AuxIdle == PoolIdle /\ FactoryIdle /\ PduIdle

\* stype of the invocation at level l: the recursive call passes SourceErr.
StypeOf(l) == IF l = 0 THEN wstype ELSE SourceErr
\* How the stream of the invocation at level l ends: strings.NewReader ends
\* with EOF.
EndOf(l) == IF l = 0 THEN srcEnd ELSE EOF

(***************************************************************************)
(* io.ReadFull(stream, buffer) followed by buffer.Shrink(n) and the         *)
(* normalisation of io.ErrUnexpectedEOF.                                    *)
(***************************************************************************)
\* Mutant: the producer without buffer.Shrink(uint(n)); the frame then
\* carries the whole buffer, zero bytes after the n read ones.
ReadFull_NoShrink(data, end) ==
    LET n == Min(Len(data), BufSize)
        e == IF n = BufSize THEN Nil
             ELSE IF end = EOF
                  THEN (IF n = 0 THEN EOF ELSE ErrUnexpectedEOF)
                  ELSE end
    IN  [buf |-> SubSeq(data, 1, n) \o [i \in 1..(BufSize - n) |-> 0], err |-> e,
         rest |-> SubSeq(data, n + 1, Len(data))]

ReadFull(data, end) ==
    LET n == Min(Len(data), BufSize)
        e == IF n = BufSize THEN Nil
             ELSE IF end = EOF
                  THEN (IF n = 0 THEN EOF ELSE ErrUnexpectedEOF)
                  ELSE end
    IN  [buf |-> SubSeq(data, 1, n), err |-> e,
         rest |-> SubSeq(data, n + 1, Len(data))]

NormalizeEOF(e) == IF e = ErrUnexpectedEOF THEN EOF ELSE e


(***************************************************************************)
(* fmt.Errorf("stream error: %q", string(payload)): the text of the error   *)
(* ReadStream builds from a SourceErr frame.  %q is strconv.Quote: the      *)
(* payload between double quotes, with " and \ escaped by a backslash.      *)
(***************************************************************************)
QuoteByte(b) == IF b = 34 THEN <<92, 34>> ELSE IF b = 92 THEN <<92, 92>> ELSE <<b>>

RECURSIVE QuoteBody(_)
QuoteBody(s) == IF s = <<>> THEN <<>> ELSE QuoteByte(Head(s)) \o QuoteBody(Tail(s))

Quote(s) == <<34>> \o QuoteBody(s) \o <<34>>

\* "stream error: "
StreamErrorPrefix == <<115, 116, 114, 101, 97, 109, 32, 101, 114, 114, 111, 114, 58, 32>>

StreamErrorText(payload) == StreamErrorPrefix \o Quote(payload)

StreamError(payload) == [k |-> "stream", msg |-> StreamErrorText(payload)]

\* Mutant: ReadStream without its "if f.Header.Type == SourceEOF" test.
AfterLoop_NoEOFTest(f) ==
    IF f.type = SourceErr THEN [k |-> "stream", msg |-> f.buf]
    ELSE [k |-> "unexpectedType", msg |-> <<f.type>>]

\* What ReadStream returns after its loop, from the last frame f it received.
AfterLoop(f) ==
    IF f.type = SourceEOF THEN Nil
    ELSE IF f.type = SourceErr THEN StreamError(f.buf)
    ELSE UnexpectedType(f.type)

(***************************************************************************)
(* Stream: initial state.  WriteStream and ReadStream have been called on   *)
(* the two ends of the connection; ReadStream has made its channel and      *)
(* started its goroutine, WriteStream is at its first statement.            *)
(***************************************************************************)
Sources == SeqsUpTo(Bytes, MaxLen)
Messages == SeqsUpTo(Bytes, MaxMsgLen)
SourceEnds == {EOF} \cup {SrcError(m) : m \in Messages}

InitStream ==
    /\ srcData \in Sources
    /\ srcEnd \in SourceEnds
    /\ wstype \in WriterTypes
    /\ rstype \in ReaderTypes
    /\ connFault \in BOOLEAN
    /\ sinkFault \in {"none", "err", "short"}
    /\ rest = [l \in Levels |-> IF l = 0 THEN srcData ELSE <<>>]
    /\ ppc = [l \in Levels |-> "idle"]
    /\ pend = [l \in Levels |-> NoRead]
    /\ reads = [l \in Levels |-> <<>>]
    /\ closed = [l \in Levels |-> FALSE]
    /\ wlevel = 0
    /\ wpc = "start"
    /\ wcur = NoRead
    /\ wret = Nil
    /\ sent = <<>>
    /\ rpos = 0
    /\ gpc = "read"
    /\ gcur = NoFrame
    /\ rreads = <<>>
    /\ rclosed = FALSE
    /\ rpc = "recv"
    /\ rcur = NoFrame
    /\ rret = Nil
    /\ sink = <<>>
    /\ PrunerIdle
    /\ AuxIdle

readerVars == <<rstype, sinkFault, gpc, gcur, rreads, rclosed, rpc, rcur, rret, sink, rpos>>
envVars == <<srcData, srcEnd, wstype, connFault>>
producerVars == <<rest, ppc, pend>>

(***************************************************************************)
(* WriteStream.                                                             *)
(***************************************************************************)
\* Outcomes of one connection operation: success, and failure if the
\* connection is one that may fail.
ConnOutcomes == IF connFault THEN {TRUE, FALSE} ELSE {TRUE}

\* Entry of an invocation: the stype check, make(chan read, 1), go func().
WriteStreamEnter ==
    /\ wpc = "start"
    /\ IF StypeOf(wlevel) = 0
       THEN /\ wpc' = "panic"
            /\ UNCHANGED ppc
       ELSE /\ wpc' = "recv"
            /\ ppc' = [ppc EXCEPT ![wlevel] = "read"]
    /\ UNCHANGED <<prunerVars, auxVars, envVars, readerVars, rest, pend, reads, closed, wlevel,
                   wcur, wret, sent>>

\* Producer: bufpool.Get, io.ReadFull, Shrink, ErrUnexpectedEOF -> EOF.
ProducerRead ==
    \E l \in Levels :
        /\ ppc[l] = "read"
        /\ LET r == ReadFull(rest[l], EndOf(l))
           IN  /\ pend' = [pend EXCEPT ![l] = [buf |-> r.buf, err |-> NormalizeEOF(r.err)]]
               /\ rest' = [rest EXCEPT ![l] = r.rest]
        /\ ppc' = [ppc EXCEPT ![l] = "send"]
        /\ UNCHANGED <<prunerVars, auxVars, envVars, readerVars, reads, closed, wlevel, wpc, wcur,
                       wret, sent>>

\* Producer: reads <- read{buffer, err}; blocks while the channel is full.
ProducerSend ==
    \E l \in Levels :
        /\ ppc[l] = "send"
        /\ Len(reads[l]) < 1
        /\ reads' = [reads EXCEPT ![l] = Append(@, pend[l])]
        /\ ppc' = [ppc EXCEPT ![l] = IF pend[l].err # Nil THEN "close" ELSE "read"]
        /\ UNCHANGED <<prunerVars, auxVars, envVars, readerVars, rest, pend, closed, wlevel, wpc,
                       wcur, wret, sent>>

\* Producer: close(reads); return.
ProducerClose ==
    \E l \in Levels :
        /\ ppc[l] = "close"
        /\ closed' = [closed EXCEPT ![l] = TRUE]
        /\ ppc' = [ppc EXCEPT ![l] = "done"]
        /\ UNCHANGED <<prunerVars, auxVars, envVars, readerVars, rest, pend, reads, wlevel, wpc,
                       wcur, wret, sent>>

\* Consumer: for read := range reads.  A closed and drained channel ends the
\* loop, and WriteStream returns nil.
WriteStreamRecv ==
    /\ wpc = "recv"
    /\ reads[wlevel] # <<>> \/ closed[wlevel]
    /\ IF reads[wlevel] # <<>>
       THEN /\ wcur' = Head(reads[wlevel])
            /\ reads' = [reads EXCEPT ![wlevel] = Tail(@)]
            /\ wpc' = "handle"
            /\ UNCHANGED wret
       ELSE /\ wret' = Nil
            /\ wpc' = "done"
            /\ UNCHANGED <<wcur, reads>>
    /\ UNCHANGED <<prunerVars, auxVars, envVars, readerVars, producerVars, closed, wlevel, sent>>

\* Mutant: the consumer without "if writeErr != nil { return writeErr }".
AfterWriteFrame_IgnoreErr(ok, e) == IF e = EOF THEN "eof" ELSE "recv"

\* Consumer, after c.WriteFrame(buf.Bytes(), stype): return on a write error,
\* go on to the SourceEOF frame after the last buffer, else take the next.
AfterWriteFrame(ok, e) ==
    IF ~ok THEN "done"
    ELSE IF e = EOF THEN "eof" ELSE "recv"

\* Consumer, loop body: on a read error free the buffer and call
\* WriteStream(ctx, c, strings.NewReader(read.err.Error()), SourceErr);
\* otherwise WriteFrame(buf.Bytes(), stype), free, and on EOF go on to the
\* SourceEOF frame.
WriteStreamHandle ==
    /\ wpc = "handle"
    /\ IF wcur.err # Nil /\ wcur.err # EOF
       THEN /\ wlevel' = wlevel + 1
            /\ rest' = [rest EXCEPT ![wlevel + 1] = wcur.err.msg]
            /\ wpc' = "start"
            /\ UNCHANGED <<sent, wret>>
       ELSE /\ \E ok \in ConnOutcomes :
                IF ok
                THEN /\ sent' = Append(sent, [type |-> StypeOf(wlevel), buf |-> wcur.buf])
                     /\ wpc' = AfterWriteFrame(ok, wcur.err)
                     /\ UNCHANGED wret
                ELSE /\ wret' = ConnWriteErr
                     /\ wpc' = AfterWriteFrame(ok, wcur.err)
                     /\ UNCHANGED sent
            /\ UNCHANGED <<wlevel, rest>>
    /\ UNCHANGED <<prunerVars, auxVars, envVars, readerVars, ppc, pend, reads, closed, wcur>>

\* Consumer: c.WriteFrame([]byte{}, SourceEOF); break; return nil.
WriteStreamEOF ==
    /\ wpc = "eof"
    /\ \E ok \in ConnOutcomes :
        /\ sent' = IF ok THEN Append(sent, [type |-> SourceEOF, buf |-> <<>>]) ELSE sent
        /\ wret' = IF ok THEN Nil ELSE ConnWriteErr
    /\ wpc' = "done"
    /\ UNCHANGED <<prunerVars, auxVars, envVars, readerVars, producerVars, reads, closed, wlevel, wcur>>

(***************************************************************************)
(* ReadStream.                                                              *)
(***************************************************************************)
writerVars == <<srcData, srcEnd, wstype, rest, ppc, pend, reads, closed, wlevel,
                wpc, wcur, wret, sent>>

\* Goroutine: r.f, r.err = c.ReadFrame().  Blocks until a frame is there.
ReaderRead ==
    /\ gpc = "read"
    /\ \E ok \in ConnOutcomes :
        IF ok
        THEN /\ rpos < Len(sent)
             /\ gcur' = [type |-> sent[rpos + 1].type, buf |-> sent[rpos + 1].buf, err |-> Nil]
             /\ rpos' = rpos + 1
        ELSE /\ gcur' = [NoFrame EXCEPT !.err = ConnReadErr]
             /\ UNCHANGED rpos
    /\ gpc' = "send"
    /\ UNCHANGED <<prunerVars, auxVars, writerVars, connFault, rstype, sinkFault, rreads, rclosed,
                   rpc, rcur, rret, sink>>

\* Goroutine: reads <- r; then the test that ends it.
ReaderSend ==
    /\ gpc = "send"
    /\ Len(rreads) < 1
    /\ rreads' = Append(rreads, gcur)
    /\ gpc' = IF gcur.err # Nil \/ gcur.type = SourceEOF \/ gcur.type = SourceErr
              THEN "close" ELSE "read"
    /\ UNCHANGED <<prunerVars, auxVars, writerVars, connFault, rstype, sinkFault, gcur, rclosed,
                   rpc, rcur, rret, sink, rpos>>

\* Goroutine: close(reads); return.
ReaderClose ==
    /\ gpc = "close"
    /\ rclosed' = TRUE
    /\ gpc' = "done"
    /\ UNCHANGED <<prunerVars, auxVars, writerVars, connFault, rstype, sinkFault, gcur, rreads,
                   rpc, rcur, rret, sink, rpos>>

\* Consumer: for read := range reads, the two tests before the write, and
\* the statements after the loop.
ReadStreamRecv ==
    /\ rpc = "recv"
    /\ rreads # <<>> \/ rclosed
    /\ IF rreads # <<>>
       THEN LET rd == Head(rreads)
            IN  /\ rreads' = Tail(rreads)
                /\ rcur' = rd
                /\ IF rd.err # Nil
                   THEN rret' = rd.err /\ rpc' = "done"
                   ELSE IF rd.type # rstype
                        THEN rret' = AfterLoop(rd) /\ rpc' = "done"
                        ELSE rpc' = "write" /\ UNCHANGED rret
       ELSE /\ rret' = AfterLoop(rcur)
            /\ rpc' = "done"
            /\ UNCHANGED <<rreads, rcur>>
    /\ UNCHANGED <<prunerVars, auxVars, writerVars, connFault, rstype, sinkFault, gpc, gcur, rclosed,
                   sink, rpos>>

\* What receiver.Write may do with p: accept it, fail, or accept a strict
\* prefix.
SinkOutcomes(p) ==
    {[n |-> Len(p), err |-> Nil]}
    \cup (IF sinkFault = "err" THEN {[n |-> 0, err |-> SinkErr]} ELSE {})
    \cup (IF sinkFault = "short" THEN {[n |-> i, err |-> Nil] : i \in 0..(Len(p) - 1)} ELSE {})

\* Consumer: n, err := receiver.Write(f.Buffer.Bytes()) and its checks.
ReadStreamWrite ==
    /\ rpc = "write"
    /\ \E o \in SinkOutcomes(rcur.buf) :
        /\ sink' = sink \o SubSeq(rcur.buf, 1, o.n)
        /\ IF o.err # Nil
           THEN rret' = o.err /\ rpc' = "done"
           ELSE IF o.n # Len(rcur.buf)
                THEN rret' = ErrShortWrite /\ rpc' = "done"
                ELSE rpc' = "recv" /\ UNCHANGED rret
    /\ UNCHANGED <<prunerVars, auxVars, writerVars, connFault, rstype, sinkFault, gpc, gcur, rreads,
                   rclosed, rcur, rpos>>

NextStream ==
    \/ WriteStreamEnter
    \/ ProducerRead
    \/ ProducerSend
    \/ ProducerClose
    \/ WriteStreamRecv
    \/ WriteStreamHandle
    \/ WriteStreamEOF
    \/ ReaderRead
    \/ ReaderSend
    \/ ReaderClose
    \/ ReadStreamRecv
    \/ ReadStreamWrite

SpecStream == InitStream /\ [][NextStream]_vars


(***************************************************************************)
(* Pruner.                                                                  *)
(***************************************************************************)
\* Errors the pruner meets.  NetErr is any error that implements net.Error,
\* PermErr any error that does not.  context.DeadlineExceeded has Timeout()
\* and Temporary() methods, so it implements net.Error; context.Canceled
\* does not.
NetErr == [k |-> "net", msg |-> <<>>]
PermErr == [k |-> "perm", msg |-> <<>>]
Canceled == [k |-> "context.Canceled", msg |-> <<>>]
DeadlineExceeded == [k |-> "context.DeadlineExceeded", msg |-> <<>>]
InvalidCreation == [k |-> "invalid creation date", msg |-> <<>>]

RPCErrors == {NetErr, PermErr}

IsNetError(e) == e \in {NetErr, DeadlineExceeded}

shouldRetry(e) ==
    IF e = Nil THEN TRUE
    ELSE IF IsNetError(e) THEN TRUE
    ELSE FALSE

PathNames == <<"zroot/a", "zroot/b", "zroot/c", "zroot/d">>
SnapNames == <<"v1", "v2", "v3", "v4", "v5">>

\* Creation strings on the wire: one that is RFC 3339 and one that is not.
GoodCreation == "2018-08-26T12:00:00Z"
BadCreation == "yesterday"
Creations == {GoodCreation, BadCreation}

\* time.Parse(time.RFC3339, s), as far as the pruner depends on it: whether
\* it fails.
ParsesRFC3339(s) == s = GoodCreation

\* FilesystemVersion.CreationAsTime.
CreationAsTime(v) ==
    IF ParsesRFC3339(v.Creation)
    THEN [date |-> v.Creation, err |-> Nil]
    ELSE [date |-> "", err |-> InvalidCreation]

\* FilesystemVersion.RelName calls ZFSFilesystemVersion, which panics when a
\* non-empty Creation does not parse.
ZFSFilesystemVersionPanics(v) == v.Creation # "" /\ ~ParsesRFC3339(v.Creation)

RelNamePanics(v) == ZFSFilesystemVersionPanics(v)

\* One version as the Target lists it, with the answer History has for it.
VersionChoices(name) ==
    {[Type |-> "Snapshot", Name |-> name, Creation |-> GoodCreation, status |-> st] :
        st \in {"Nonexistent", "NotReplicated", "Replicated"}}
    \cup {[Type |-> "Snapshot", Name |-> name, Creation |-> BadCreation, status |-> "Replicated"],
          [Type |-> "Bookmark", Name |-> name, Creation |-> GoodCreation, status |-> "Nonexistent"]}

RECURSIVE VersionLists(_)
VersionLists(n) ==
    IF n = 0 THEN {<<>>}
    ELSE {Append(l, v) : l \in VersionLists(n - 1), v \in VersionChoices(SnapNames[n])}

RECURSIVE Inventories(_, _)
\* Inventories of exactly n filesystems holding at most k versions in all.
Inventories(n, k) ==
    IF n = 0 THEN {<<>>}
    ELSE UNION {{Append(inv, [Path |-> PathNames[n], versions |-> vs]) :
                    inv \in Inventories(n - 1, k - m), vs \in VersionLists(m)} :
                m \in 0..k}

\* The pdu.FilesystemVersion of an inventory entry.
Fsv(v) == [Type |-> v.Type, Name |-> v.Name, Creation |-> v.Creation]

\* The stream variables while no stream is modelled.
StreamIdle ==
    /\ srcData = <<>>
    /\ srcEnd = EOF
    /\ wstype = 7
    /\ rstype = 7
    /\ connFault = FALSE
    /\ sinkFault = "none"
    /\ rest = [l \in Levels |-> <<>>]
    /\ ppc = [l \in Levels |-> "idle"]
    /\ pend = [l \in Levels |-> NoRead]
    /\ reads = [l \in Levels |-> <<>>]
    /\ closed = [l \in Levels |-> FALSE]
    /\ wlevel = 0
    /\ wpc = "idle"
    /\ wcur = NoRead
    /\ wret = Nil
    /\ sent = <<>>
    /\ rpos = 0
    /\ gpc = "idle"
    /\ gcur = NoFrame
    /\ rreads = <<>>
    /\ rclosed = FALSE
    /\ rpc = "idle"
    /\ rcur = NoFrame
    /\ rret = Nil
    /\ sink = <<>>

\* BuildSenderPruner / BuildReceiverPruner: state Plan, everything else zero.
InitPruner ==
    /\ StreamIdle
    /\ inventory \in UNION {Inventories(n, MaxVers) : n \in 0..MaxFS}
    /\ InitPrunerVars
    /\ AuxIdle

\* Mutant: onErr with the two cases of its switch exchanged.
onErr_SwappedWait(st, e) ==
    IF ~shouldRetry(e)
    THEN [state |-> "ErrPerm", err |-> e, panic |-> FALSE]
    ELSE IF st = "Plan" THEN [state |-> "ExecWait", err |-> e, panic |-> FALSE]
    ELSE IF st = "Exec" THEN [state |-> "PlanWait", err |-> e, panic |-> FALSE]
    ELSE [state |-> st, err |-> e, panic |-> TRUE]

\* onErr's updater: the pruner fields after onErr(u, e) in state st.
onErr(st, e) ==
    IF ~shouldRetry(e)
    THEN [state |-> "ErrPerm", err |-> e, panic |-> FALSE]
    ELSE IF st = "Plan" THEN [state |-> "PlanWait", err |-> e, panic |-> FALSE]
    ELSE IF st = "Exec" THEN [state |-> "ExecWait", err |-> e, panic |-> FALSE]
    ELSE [state |-> st, err |-> e, panic |-> TRUE]

\* The snapshot statePlan appends for version v with History's status st.
PlanSnapshot(v, st) ==
    [replicated |-> ~(st # "Replicated"),
     date |-> CreationAsTime(v).date,
     fsv |-> Fsv(v)]

\* Mutant: statePlan without "if tfsv.Type != Snapshot { continue }".
IsSnapshot_Always(v) == TRUE

\* statePlan's test of a listed version's type.
IsSnapshot(v) == v.Type = "Snapshot"

\* statePlan, the loop over one filesystem's versions from the j-th on, with
\* the snapshots gathered so far.  The result is the set of ways it can end,
\* History answering each call with the status it has or with an error:
\*   "pfs"    the record built for the filesystem,
\*   "onErr"  statePlan returns onErr(u, err),
\*   "panic"  the goroutine panics.
RECURSIVE PlanVersions(_, _, _)
PlanVersions(tfs, j, snaps) ==
    IF j > Len(tfs.versions)
    THEN {[kind |-> "pfs", pfs |-> [path |-> tfs.Path, snaps |-> snaps, err |-> Nil],
           op |-> "", err |-> Nil]}
    ELSE LET v == tfs.versions[j] IN
         IF ~IsSnapshot(v) THEN PlanVersions(tfs, j + 1, snaps)
         ELSE IF CreationAsTime(v).err # Nil
         THEN IF RelNamePanics(v)
              THEN {[kind |-> "panic", pfs |-> <<>>, op |-> "RelName", err |-> Nil]}
              ELSE {[kind |-> "onErr", pfs |-> <<>>, op |-> "CreationAsTime",
                     err |-> InvalidCreation]}
         ELSE {[kind |-> "onErr", pfs |-> <<>>, op |-> "SnapshotReplicationStatus",
                err |-> e] : e \in {x \in RPCErrors : shouldRetry(x)}}
              \cup {[kind |-> "pfs",
                     pfs |-> [path |-> tfs.Path, snaps |-> <<>>, err |-> e],
                     op |-> "", err |-> Nil] : e \in {x \in RPCErrors : ~shouldRetry(x)}}
              \cup PlanVersions(tfs, j + 1, Append(snaps, PlanSnapshot(v, v.status)))

\* statePlan, the loop over the filesystems from the i-th on.
RECURSIVE PlanFilesystems(_, _, _)
PlanFilesystems(tfss, i, pfss) ==
    IF i > Len(tfss)
    THEN {[kind |-> "ok", pfss |-> pfss, op |-> "", err |-> Nil]}
    ELSE {[kind |-> "onErr", pfss |-> <<>>, op |-> "ListFilesystemVersions", err |-> e] :
            e \in RPCErrors}
         \cup UNION {
            IF o.kind = "pfs"
            THEN PlanFilesystems(tfss, i + 1, Append(pfss, o.pfs))
            ELSE {[kind |-> o.kind, pfss |-> <<>>, op |-> o.op, err |-> o.err]} :
            o \in PlanVersions(tfss[i], 1, <<>>)}

\* Every way one run of statePlan can end.
PlanOutcomes ==
    {[kind |-> "onErr", pfss |-> <<>>, op |-> "ListFilesystems", err |-> e] : e \in RPCErrors}
    \cup PlanFilesystems(inventory, 1, <<>>)

\* statePlan's final updater: the partition of pfss.
RECURSIVE SelectSeq2(_, _)
SelectSeq2(s, keepErr) ==
    IF s = <<>> THEN <<>>
    ELSE IF (Head(s).err # Nil) = keepErr
         THEN <<Head(s)>> \o SelectSeq2(Tail(s), keepErr)
         ELSE SelectSeq2(Tail(s), keepErr)

PlanCompleted(pfss) == SelectSeq2(pfss, TRUE)
\* Mutant: the final updater appending every record to prunePending.
PlanPending_NoErrTest(pfss) == pfss
PlanPending(pfss) == SelectSeq2(pfss, FALSE)

Running == ~panicked /\ state \notin {"ErrPerm", "Done"}

statePlan ==
    /\ Running
    /\ state = "Plan"
    /\ \E o \in PlanOutcomes :
        /\ lastCall' = [op |-> o.op, err |-> o.err]
        /\ IF o.kind = "panic"
           THEN /\ panicked' = TRUE
                /\ UNCHANGED <<state, err, prunePending, pruneCompleted, planned>>
           ELSE IF o.kind = "onErr"
           THEN /\ state' = onErr(state, o.err).state
                /\ err' = onErr(state, o.err).err
                /\ panicked' = onErr(state, o.err).panic
                /\ UNCHANGED <<prunePending, pruneCompleted, planned>>
           ELSE /\ pruneCompleted' = pruneCompleted \o PlanCompleted(o.pfss)
                /\ prunePending' = prunePending \o PlanPending(o.pfss)
                /\ state' = "Exec"
                /\ planned' = [ok |-> TRUE, pfss |-> o.pfss]
                /\ UNCHANGED <<err, panicked>>
    /\ UNCHANGED <<streamVars, auxVars, inventory, ctxErr, lastReq, destroyIssued>>

\* pruning.PruneSnapshots(snaps, rules): the policy is not part of the pruner;
\* it returns snapshots it was handed, in their order.
RECURSIVE SubSeqs(_)
SubSeqs(s) ==
    IF s = <<>> THEN {<<>>}
    ELSE LET r == SubSeqs(Tail(s))
         IN  r \cup {<<Head(s)>> \o t : t \in r}

PruneSnapshots(snaps) == SubSeqs(snaps)

DestroyList(destroyListI) == [i \in 1..Len(destroyListI) |-> destroyListI[i].fsv]

\* Mutant: stateExec's last updater without "prunePending = prunePending[1:]".
ExecComplete_NoPop(pending, completed, pfs) ==
    [pending |-> pending, completed |-> Append(completed, pfs)]

\* stateExec's last updater.
ExecComplete(pending, completed, pfs) ==
    [pending |-> Tail(pending), completed |-> Append(completed, pfs)]

stateExec ==
    /\ Running
    /\ state = "Exec"
    /\ IF Len(prunePending) = 0
       THEN /\ state' = "Done"
            /\ lastCall' = NoCall
            /\ UNCHANGED <<err, prunePending, pruneCompleted, panicked, lastReq,
                           destroyIssued>>
       ELSE LET pfs == prunePending[1] IN
            \E destroyListI \in PruneSnapshots(pfs.snaps), e \in {Nil} \cup RPCErrors :
                /\ lastReq' = [Filesystem |-> pfs.path,
                               Snapshots |-> DestroyList(destroyListI)]
                /\ destroyIssued' = destroyIssued \cup {pfs.path}
                /\ lastCall' = [op |-> "DestroySnapshots", err |-> e]
                /\ IF e # Nil /\ shouldRetry(e)
                   THEN /\ state' = onErr(state, e).state
                        /\ err' = onErr(state, e).err
                        /\ panicked' = onErr(state, e).panic
                        /\ UNCHANGED <<prunePending, pruneCompleted>>
                   ELSE LET done == ExecComplete(prunePending, pruneCompleted,
                                                 [pfs EXCEPT !.err = e])
                        IN  /\ prunePending' = done.pending
                            /\ pruneCompleted' = done.completed
                            /\ UNCHANGED <<state, err, panicked>>
    /\ UNCHANGED <<streamVars, auxVars, inventory, ctxErr, planned>>

\* statePlanWait / stateExecWait.
Goback(st) == IF st = "PlanWait" THEN "Plan" ELSE "Exec"

\* doWait: the select between the timer and ctx.Done().
doWait ==
    /\ Running
    /\ state \in {"PlanWait", "ExecWait"}
    /\ \/ /\ state' = Goback(state)
          /\ UNCHANGED <<err, panicked>>
       \/ /\ ctxErr # Nil
          /\ state' = onErr(state, ctxErr).state
          /\ err' = onErr(state, ctxErr).err
          /\ panicked' = onErr(state, ctxErr).panic
    /\ lastCall' = NoCall
    /\ UNCHANGED <<streamVars, auxVars, inventory, ctxErr, prunePending, pruneCompleted,
                   planned, lastReq, destroyIssued>>

\* The ambient context becomes done: cancelled, or past its deadline.
ctxDone ==
    /\ ctxErr = Nil
    /\ ctxErr' \in {Canceled, DeadlineExceeded}
    /\ UNCHANGED <<streamVars, auxVars, inventory, state, err, prunePending, pruneCompleted,
                   panicked, planned, lastCall, lastReq, destroyIssued>>

\* Pruner.Report.
Report == Nil

NextPruner ==
    \/ statePlan
    \/ stateExec
    \/ doWait
    \/ ctxDone

SpecPruner == InitPruner /\ [][NextPruner]_vars

\* A step of statePlan or stateExec whose deciding call does not fail with a
\* retryable error.
NoRetryableError == ~(lastCall'.err # Nil /\ shouldRetry(lastCall'.err))

\* The pruner under the scheduling Prune()'s loop gives it: the state
\* function of the current state runs (each RPC returns, the retry timer
\* fires or the context is done), and a call that is tried again and again
\* does not fail with a retryable error every time.
SpecPrunerFair ==
    /\ SpecPruner
    /\ WF_vars(statePlan)
    /\ WF_vars(stateExec)
    /\ WF_vars(doWait)
    /\ SF_vars(statePlan /\ NoRetryableError)
    /\ SF_vars(stateExec /\ NoRetryableError)


(***************************************************************************)
(* base2bufpool.                                                            *)
(***************************************************************************)
RECURSIVE BitsLen(_)
\* bits.Len(x): the number of bits needed to represent x.
BitsLen(x) == IF x = 0 THEN 0 ELSE 1 + BitsLen(x \div 2)

RECURSIVE OnesCount(_)
\* bits.OnesCount(x).
OnesCount(x) == IF x = 0 THEN 0 ELSE (x % 2) + OnesCount(x \div 2)

RECURSIVE Pow2(_)
\* 1 << k.
Pow2(k) == IF k = 0 THEN 1 ELSE 2 * Pow2(k - 1)

fittingShift(x) ==
    IF x = 0 THEN 0
    ELSE LET blen == BitsLen(x)
         IN  IF Pow2(blen - 1) = x THEN blen - 1 ELSE blen

\* Buffer.Bytes(): shiftBuf[0:payloadLen], the storage it views and its length.
BufferBytes(b) == [id |-> b.shiftBuf.id, len |-> b.payloadLen]

Shifts == minShift..maxShift
Sizes == 0..MaxSize

\* Storage no sub-pool and no caller refers to: make() returns new storage,
\* named here by the least identity not in use.
InUse ==
    UNION {{pools[sh][i].id : i \in 1..Len(pools[sh])} : sh \in Shifts}
    \cup {held[i].shiftBuf.id : i \in 1..Len(held)}
    \cup {stale.shiftBuf.id}
Make(n) == [id |-> CHOOSE i \in 1..(Cardinality(InUse) + 1) :
                        i \notin InUse /\ \A j \in 1..(i - 1) : j \in InUse,
            len |-> n]

\* New(minShift, maxShift): one empty sub-pool per shift.
InitPool ==
    /\ StreamIdle
    /\ PrunerIdle
    /\ FactoryIdle
    /\ PduIdle
    /\ pools = [sh \in Shifts |-> <<>>]
    /\ held = <<>>
    /\ stale = NoBuf
    /\ lastGet = NoGet
    /\ poolPanicked = FALSE

\* pool.Get of the sub-pool with bufs: the last buffer, else a new one.
SubPoolGet(bufs, shift) ==
    IF Len(bufs) > 0
    THEN [ret |-> bufs[Len(bufs)], bufs |-> SubSeq(bufs, 1, Len(bufs) - 1)]
    ELSE [ret |-> Make(Pow2(shift)), bufs |-> bufs]

\* Pool.Get(minSize): the Buffer returned and the sub-pools afterwards.
Get(minSize) ==
    LET shift == fittingShift(minSize) IN
    IF shift = 0
    THEN [buf |-> [shiftBuf |-> [id |-> 0, len |-> 0], payloadLen |-> 0, pool |-> FALSE],
          pools |-> pools]
    ELSE IF shift < minShift \/ shift > maxShift
    THEN [buf |-> [shiftBuf |-> Make(Pow2(shift)), payloadLen |-> minSize, pool |-> FALSE],
          pools |-> pools]
    ELSE LET g == SubPoolGet(pools[shift], shift)
         IN  [buf |-> [shiftBuf |-> g.ret, payloadLen |-> minSize, pool |-> TRUE],
              pools |-> [pools EXCEPT ![shift] = g.bufs]]

\* pool.Put of the sub-pool with bufs.
SubPoolPut(bufs, shift, buf) ==
    IF buf.len # Pow2(shift) THEN [panic |-> TRUE, bufs |-> bufs]
    ELSE IF Len(bufs) > PoolLimit THEN [panic |-> FALSE, bufs |-> bufs]
    ELSE [panic |-> FALSE, bufs |-> Append(bufs, buf)]

\* Pool.put(buffer), for a buffer whose pool is this one (with the single
\* Pool of the model the "didn't originate from" panic cannot happen).
put(buffer) ==
    LET buf == buffer.shiftBuf IN
    IF OnesCount(buf.len) > 1 THEN [panic |-> TRUE, pools |-> pools]
    ELSE IF buf.len = 0 THEN [panic |-> FALSE, pools |-> pools]
    ELSE LET shift == fittingShift(buf.len) IN
         IF shift < minShift \/ shift > maxShift THEN [panic |-> FALSE, pools |-> pools]
         ELSE LET r == SubPoolPut(pools[shift], shift, buf)
              IN  [panic |-> r.panic, pools |-> [pools EXCEPT ![shift] = r.bufs]]

\* Buffer.Free().
Free(b) == IF b.pool THEN put(b) ELSE [panic |-> FALSE, pools |-> pools]

\* A caller calls Pool.Get(minSize) and holds the Buffer.
PoolGet ==
    /\ ~poolPanicked
    /\ Len(held) < MaxHeld
    /\ \E minSize \in Sizes :
        LET g == Get(minSize) IN
        /\ pools' = g.pools
        /\ held' = Append(held, g.buf)
        /\ lastGet' = [minSize |-> minSize, bytesLen |-> BufferBytes(g.buf).len,
                        storageLen |-> g.buf.shiftBuf.len, called |-> TRUE]
    /\ UNCHANGED <<streamVars, prunerVars, factoryVars, pduVars, stale, poolPanicked>>

\* A caller calls Free() on a Buffer it holds.  Buffer is a value: the caller
\* may keep a copy (kept here only of a Buffer that has a pool, freeing any
\* other being a no-op).
BufferFree ==
    /\ ~poolPanicked
    /\ \E k \in 1..Len(held) : \E keep \in {FALSE, held[k].pool} :
        LET f == Free(held[k]) IN
        /\ pools' = f.pools
        /\ poolPanicked' = f.panic
        /\ held' = SubSeq(held, 1, k - 1) \o SubSeq(held, k + 1, Len(held))
        /\ stale' = IF keep THEN held[k] ELSE stale
    /\ UNCHANGED <<streamVars, prunerVars, factoryVars, pduVars, lastGet>>

\* A caller calls Free() on the copy it kept of a Buffer it freed before.
BufferFreeAgain ==
    /\ ~poolPanicked
    /\ stale # NoBuf
    /\ LET f == Free(stale) IN
        /\ pools' = f.pools
        /\ poolPanicked' = f.panic
    /\ stale' = NoBuf
    /\ UNCHANGED <<streamVars, prunerVars, factoryVars, pduVars, held, lastGet>>

NextPool ==
    \/ PoolGet
    \/ BufferFree
    \/ BufferFreeAgain

SpecPool == InitPool /\ [][NextPool]_vars


(***************************************************************************)
(* The pruner factory.                                                      *)
(***************************************************************************)
\* A configured keep rule: the kind of rule it describes, and whether
\* pruning.RulesFromConfig can build it.
RuleKinds == {"KeepLastN", "KeepRegex", "KeepNotReplicated"}
RuleConfigs ==
    {[kind |-> k, valid |-> TRUE] : k \in RuleKinds}
    \cup {[kind |-> "KeepRegex", valid |-> FALSE]}

BuildReceiverErr == [k |-> "cannot build receiver pruning rules", msg |-> <<>>]
BuildSenderErr == [k |-> "cannot build sender pruning rules", msg |-> <<>>]
Keep1Err == [k |-> "sender keep rules must contain last_n or be empty", msg |-> <<>>]

\* pruning.RulesFromConfig: a rule per configured rule, or an error.
RulesFromConfig(in) ==
    IF \E i \in 1..Len(in) : ~in[i].valid
    THEN [rules |-> <<>>, err |-> TRUE]
    ELSE [rules |-> [i \in 1..Len(in) |-> in[i].kind], err |-> FALSE]

\* Mutant: checkContainsKeep1 without "if len(rules) == 0 { return nil }".
checkContainsKeep1_NoEmptyTest(rules) ==
    IF \E i \in 1..Len(rules) : rules[i] = "KeepLastN" THEN Nil ELSE Keep1Err

checkContainsKeep1(rules) ==
    IF Len(rules) = 0 THEN Nil
    ELSE IF \E i \in 1..Len(rules) : rules[i] = "KeepLastN" THEN Nil
    ELSE Keep1Err

InitFactory ==
    /\ StreamIdle
    /\ PrunerIdle
    /\ PoolIdle
    /\ PduIdle
    /\ keepSender \in SeqsUpTo(RuleConfigs, MaxRules)
    /\ keepReceiver \in SeqsUpTo(RuleConfigs, MaxRules)
    /\ factory = NoFactory

NewPrunerFactory ==
    /\ ~factory.called
    /\ LET keepRulesReceiver == RulesFromConfig(keepReceiver)
           keepRulesSender == RulesFromConfig(keepSender)
       IN  factory' =
             IF keepRulesReceiver.err
             THEN [NoFactory EXCEPT !.called = TRUE, !.err = BuildReceiverErr]
             ELSE IF keepRulesSender.err
             THEN [NoFactory EXCEPT !.called = TRUE, !.err = BuildSenderErr]
             ELSE IF checkContainsKeep1(keepRulesSender.rules) # Nil
             THEN [NoFactory EXCEPT !.called = TRUE,
                                    !.err = checkContainsKeep1(keepRulesSender.rules)]
             ELSE [called |-> TRUE, err |-> Nil,
                   senderRules |-> keepRulesSender.rules,
                   receiverRules |-> keepRulesReceiver.rules]
    /\ UNCHANGED <<streamVars, prunerVars, poolVars, pduVars, keepSender, keepReceiver>>

NextFactory == NewPrunerFactory

SpecFactory == InitFactory /\ [][NextFactory]_vars


(***************************************************************************)
(* Conversions between zfs.FilesystemVersion and pdu.FilesystemVersion.     *)
(***************************************************************************)
\* A time.Time is modelled by its instant: whole seconds since the zero
\* instant time.Time{} and the nanoseconds within the second.
Secs == 0..MaxSec
Nsecs == {0, 500000000}
Times == [sec : Secs, nsec : Nsecs]

RECURSIVE Digits(_)
\* The decimal digits of n.
Digits(n) == IF n < 10 THEN <<n>> ELSE Append(Digits(n \div 10), n % 10)

RECURSIVE Number(_)
\* The number a sequence of decimal digits denotes.
Number(ds) == IF ds = <<>> THEN 0 ELSE 10 * Number(SubSeq(ds, 1, Len(ds) - 1)) + ds[Len(ds)]

\* t.Format(time.RFC3339): the layout "2006-01-02T15:04:05Z07:00" has no
\* fractional seconds, so the text denotes the whole second of t.  The text
\* is modelled by the digits of that second; "" is <<>>.
TimeFormat(t) == Digits(t.sec)

\* time.Parse(time.RFC3339, s) of such a text.
TimeParse(s) ==
    IF s = <<>>
    THEN [t |-> NoTime, err |-> TRUE]
    ELSE [t |-> [sec |-> Number(s), nsec |-> 0], err |-> FALSE]

ZfsTypes == {"snapshot", "bookmark"}
VersionNames == {"a", "b"}
Guids == {1, 2}
CreateTXGs == {1, 2}

InitPdu ==
    /\ StreamIdle
    /\ PrunerIdle
    /\ PoolIdle
    /\ FactoryIdle
    /\ zfsv \in [done : {TRUE}, panic : {FALSE}, Type : ZfsTypes, Name : VersionNames,
                  Guid : Guids, CreateTXG : CreateTXGs, Creation : Times]
    /\ wire = NoWire
    /\ back = NoZfs

\* FilesystemVersion_VersionType.ZFSVersionType.
ZFSVersionType(t) ==
    IF t = "Snapshot" THEN [type |-> "snapshot", panic |-> FALSE]
    ELSE IF t = "Bookmark" THEN [type |-> "bookmark", panic |-> FALSE]
    ELSE [type |-> "", panic |-> TRUE]

\* wire = FilesystemVersionFromZFS(zfsv).
FilesystemVersionFromZFS ==
    /\ ~wire.done
    /\ zfsv.Type \in {"bookmark", "snapshot"}
    /\ wire' = [done |-> TRUE,
                Type |-> IF zfsv.Type = "bookmark" THEN "Bookmark" ELSE "Snapshot",
                Name |-> zfsv.Name,
                Guid |-> zfsv.Guid,
                CreateTXG |-> zfsv.CreateTXG,
                Creation |-> TimeFormat(zfsv.Creation)]
    /\ UNCHANGED <<streamVars, prunerVars, poolVars, factoryVars, zfsv, back>>

\* back = wire.ZFSFilesystemVersion().
ZFSFilesystemVersion ==
    /\ wire.done
    /\ ~back.done
    /\ LET parsed == IF wire.Creation # <<>> THEN TimeParse(wire.Creation)
                     ELSE [t |-> NoTime, err |-> FALSE]
           type == ZFSVersionType(wire.Type)
       IN  back' = IF parsed.err \/ type.panic
                   THEN [NoZfs EXCEPT !.done = TRUE, !.panic = TRUE]
                   ELSE [done |-> TRUE, panic |-> FALSE,
                         Type |-> type.type,
                         Name |-> wire.Name,
                         Guid |-> wire.Guid,
                         CreateTXG |-> wire.CreateTXG,
                         Creation |-> parsed.t]
    /\ UNCHANGED <<streamVars, prunerVars, poolVars, factoryVars, zfsv, wire>>

NextPdu ==
    \/ FilesystemVersionFromZFS
    \/ ZFSFilesystemVersion

SpecPdu == InitPdu /\ [][NextPdu]_vars


(***************************************************************************)
(* Properties of the stream.                                                *)
(***************************************************************************)
\* The connection never fails and the receiver accepts every write.
NoFaults == ~connFault /\ sinkFault = "none"
\* stype is one a caller may use.
ValidStype == wstype \notin {0, SourceEOF, SourceErr}
IsPrefix(s, t) == Len(s) <= Len(t) /\ s = SubSeq(t, 1, Len(s))
\* Positions of the frames of type SourceEOF or SourceErr among frames s.
Terminators(s) == {i \in 1..Len(s) : s[i].type \in {SourceEOF, SourceErr}}

\* C1: for every source S that ends with EOF, sent over a connection without
\* I/O errors and read with the same stype into a receiver that accepts every
\* write, the receiver only ever holds a prefix of S, both operations do
\* return, ReadStream returns nil with the receiver holding exactly S, and
\* WriteStream returns nil.
C1_RoundTrip ==
    (srcEnd = EOF /\ ValidStype /\ rstype = wstype /\ NoFaults) =>
        /\ IsPrefix(sink, srcData)
        /\ (rpc = "done" => rret = Nil /\ sink = srcData)
        /\ (wpc = "done" => wret = Nil)
        /\ (~ENABLED NextStream => rpc = "done" /\ wpc = "done")

C1_Witness ==
    /\ srcEnd = EOF /\ ValidStype /\ rstype = wstype /\ NoFaults
    /\ Len(srcData) > BufSize
    /\ srcData[1] # srcData[2]
    /\ rpc = "done" /\ wpc = "done"
    /\ rret = Nil /\ wret = Nil
    /\ sink = srcData

\* C2: when WriteStream has returned nil, exactly one of the frames it wrote
\* has type SourceEOF or SourceErr, and that frame is the last one.
C2_OneTerminatorLast ==
    (wpc = "done" /\ wret = Nil) => Terminators(sent) = {Len(sent)}

\* C3: when the source fails with a read error of message M, ReadStream on
\* the peer returns an error whose message is exactly M.
C3_ErrorMessageEqual ==
    (srcEnd.k = "src" /\ ValidStype /\ rstype = wstype /\ NoFaults /\ rpc = "done") =>
        rret # Nil /\ rret.msg = srcEnd.msg

\* C4: when the source yields k bytes and then fails with a read error,
\* ReadStream has written exactly those k bytes to its receiver when it
\* returns the stream error.
C4_BytesBeforeError ==
    (srcEnd.k = "src" /\ ValidStype /\ rstype = wstype /\ NoFaults /\ rpc = "done") =>
        rret.k = "stream" /\ sink = srcData

\* C5 as stated: WriteStream on an empty source writes exactly one frame, a
\* zero-length frame of type SourceEOF.
C5_OnlyEOFFrame ==
    (srcData = <<>> /\ srcEnd = EOF /\ ValidStype /\ wpc = "done" /\ wret = Nil) =>
        sent = <<[type |-> SourceEOF, buf |-> <<>>]>>

\* C5 amended: WriteStream on an empty source writes exactly two frames, a
\* zero-length frame of type stype and then a zero-length frame of type
\* SourceEOF; ReadStream on the peer with the same stype then returns nil with
\* an empty receiver.
C5_EmptyStream ==
    (srcData = <<>> /\ srcEnd = EOF /\ ValidStype) =>
        /\ IsPrefix(sent, <<[type |-> wstype, buf |-> <<>>],
                            [type |-> SourceEOF, buf |-> <<>>]>>)
        /\ (wpc = "done" /\ wret = Nil =>
                sent = <<[type |-> wstype, buf |-> <<>>],
                         [type |-> SourceEOF, buf |-> <<>>]>>)
        /\ (rstype = wstype /\ NoFaults /\ rpc = "done" => rret = Nil /\ sink = <<>>)

C5_Witness ==
    /\ srcData = <<>> /\ srcEnd = EOF /\ ValidStype
    /\ rstype = wstype /\ NoFaults
    /\ wpc = "done" /\ wret = Nil /\ Len(sent) = 2
    /\ rpc = "done" /\ rret = Nil /\ sink = <<>>


(***************************************************************************)
(* Properties of the pruner.                                                *)
(***************************************************************************)
\* The status History has for snapshot `name` of filesystem `path`.
StatusOf(path, name) ==
    LET i == CHOOSE i \in 1..Len(inventory) : inventory[i].Path = path
        j == CHOOSE j \in 1..Len(inventory[i].versions) :
                inventory[i].versions[j].Name = name
    IN  inventory[i].versions[j].status

\* Filesystems of the inventory that hold a snapshot whose creation time
\* does not parse.
HasBadCreation(tfs) ==
    \E j \in 1..Len(tfs.versions) :
        tfs.versions[j].Type = "Snapshot" /\ ~ParsesRFC3339(tfs.versions[j].Creation)

PathsOf(list) == {list[i].path : i \in 1..Len(list)}
\* A record without its err field.
Strip(r) == [path |-> r.path, snaps |-> r.snaps]
StripAll(list) == {Strip(list[i]) : i \in 1..Len(list)}
ListsUnchanged == prunePending' = prunePending /\ pruneCompleted' = pruneCompleted

\* C6: a planned snapshot for which History answers Nonexistent is recorded
\* with replicated = TRUE, like one that is Replicated; only NotReplicated
\* gives replicated = FALSE.
C6_NonexistentIsReplicated ==
    \A k \in 1..Len(planned.pfss) :
        \A n \in 1..Len(planned.pfss[k].snaps) :
            LET sn == planned.pfss[k].snaps[n]
            IN  sn.replicated = (StatusOf(planned.pfss[k].path, sn.fsv.Name) # "NotReplicated")

\* C7: when a snapshot's creation time does not parse, Plan does not abort
\* and does not end in ErrPerm with that error; once the pruner is Done, the
\* record of that filesystem is completed with an error, a DestroySnapshots
\* was issued for every other listed filesystem, and err is nil.
C7_ParseErrorOnlyFailsRecord ==
    (\E i \in 1..Len(inventory) : HasBadCreation(inventory[i])) =>
        /\ ~panicked
        /\ err # InvalidCreation
        /\ (state = "Done" =>
                \A i \in 1..Len(inventory) :
                    IF HasBadCreation(inventory[i])
                    THEN \E c \in 1..Len(pruneCompleted) :
                            /\ pruneCompleted[c].path = inventory[i].Path
                            /\ pruneCompleted[c].err # Nil
                    ELSE inventory[i].Path \in destroyIssued)

\* C8: once Plan has succeeded, every planned record is in exactly one of
\* prunePending and pruneCompleted, the records of the two lists together
\* are the planned ones, and a step either leaves both lists as they are or,
\* in state Exec, moves the head of prunePending to the end of
\* pruneCompleted.
C8_Partition ==
    planned.ok =>
        /\ Len(prunePending) + Len(pruneCompleted) = Len(planned.pfss)
        /\ StripAll(prunePending) \cup StripAll(pruneCompleted) = StripAll(planned.pfss)
        /\ \A k \in 1..Len(planned.pfss) :
              Cardinality({i \in 1..Len(prunePending) :
                              prunePending[i].path = planned.pfss[k].path})
              + Cardinality({i \in 1..Len(pruneCompleted) :
                              pruneCompleted[i].path = planned.pfss[k].path}) = 1

C8_Step ==
    planned.ok =>
        /\ planned' = planned
        /\ \/ ListsUnchanged
           \/ /\ state = "Exec"
              /\ prunePending # <<>>
              /\ prunePending' = Tail(prunePending)
              /\ Len(pruneCompleted') = Len(pruneCompleted) + 1
              /\ SubSeq(pruneCompleted', 1, Len(pruneCompleted)) = pruneCompleted
              /\ Strip(pruneCompleted'[Len(pruneCompleted')]) = Strip(Head(prunePending))

C8_PendingToCompleted == [](C8_Partition) /\ [][C8_Step]_vars

C8_Witness ==
    /\ planned.ok
    /\ state = "ExecWait"
    /\ Len(pruneCompleted) >= 1
    /\ Len(prunePending) >= 1
    /\ pruneCompleted[Len(pruneCompleted)].snaps # <<>>

\* C9: when the context is done while the pruner waits in PlanWait or
\* ExecWait and the wait ends by it, the context's error (cancelled or
\* deadline exceeded) is stored in err and the state becomes ErrPerm, without
\* a panic; and ErrPerm is never left.
C9_Step ==
    /\ (/\ state \in {"PlanWait", "ExecWait"}
        /\ ctxErr # Nil
        /\ ctxErr' = ctxErr
        /\ state' # Goback(state))
       => (state' = "ErrPerm" /\ err' = ctxErr /\ ~panicked')
    /\ (state = "ErrPerm" => state' = "ErrPerm")

C9_ContextDoneIsErrPerm == [][C9_Step]_vars

\* C10: a retryable error of a call in Plan moves the pruner to PlanWait and
\* one of DestroySnapshots in Exec moves it to ExecWait, both lists staying
\* as they are; a wait ends in Plan (from PlanWait) or Exec (from ExecWait)
\* with the lists as they are, or by the context; in Exec a DestroySnapshots
\* that succeeds completes the head record and stays in Exec, and Exec with
\* nothing pending ends in Done.
PlanCalls == {"ListFilesystems", "ListFilesystemVersions", "SnapshotReplicationStatus"}
Retryable(c) == c.err # Nil /\ shouldRetry(c.err)

C10_Step ==
    /\ (state = "Plan" /\ lastCall' # lastCall /\ lastCall'.op \in PlanCalls
            /\ Retryable(lastCall'))
        => (state' = "PlanWait" /\ err' = lastCall'.err /\ ListsUnchanged /\ ~panicked')
    /\ (state = "Exec" /\ lastCall' # lastCall /\ lastCall'.op = "DestroySnapshots"
            /\ Retryable(lastCall'))
        => (state' = "ExecWait" /\ err' = lastCall'.err /\ ListsUnchanged /\ ~panicked')
    /\ (state' = "PlanWait" /\ state # "PlanWait")
        => (state = "Plan" /\ lastCall'.op \in PlanCalls /\ Retryable(lastCall'))
    /\ (state' = "ExecWait" /\ state # "ExecWait")
        => (state = "Exec" /\ lastCall'.op = "DestroySnapshots" /\ Retryable(lastCall'))
    /\ (state \in {"PlanWait", "ExecWait"} /\ state' # state)
        => /\ ListsUnchanged
           /\ \/ state' = Goback(state)
              \/ ctxErr # Nil /\ state' = "ErrPerm"
    /\ (state = "Exec" /\ lastCall' # lastCall /\ lastCall'.op = "DestroySnapshots"
            /\ lastCall'.err = Nil)
        => (state' = "Exec" /\ prunePending' = Tail(prunePending))
    /\ (state = "Exec" /\ state' = "Done") => (prunePending = <<>> /\ ListsUnchanged)
    /\ (state = "Exec" /\ prunePending = <<>> /\ state' # state) => state' = "Done"

C10_RetryableErrorsWait == [][C10_Step]_vars

C10_Witness ==
    /\ state = "Done"
    /\ err = NetErr
    /\ planned.ok
    /\ Len(pruneCompleted) = MaxFS
    /\ \A c \in 1..Len(pruneCompleted) : pruneCompleted[c].err = Nil
    /\ destroyIssued = PathsOf(pruneCompleted)

\* C11: once Plan has succeeded, a record whose history lookup failed with a
\* non-retryable error holds that error and no snapshots, is in pruneCompleted
\* and not in prunePending, and no DestroySnapshots is ever issued for its
\* filesystem; every other planned record is in one of the two lists, no
\* DestroySnapshots is issued for anything else, and once the pruner is Done
\* one was issued for each of them; that Plan ends in Exec, and the pruner is
\* in ErrPerm afterwards only by the context.
HistoryFailed(r) == r.err # Nil
InList(r, list) == \E i \in 1..Len(list) : list[i] = r

C11_HistoryErrorSkipsExec ==
    planned.ok =>
        /\ \A k \in 1..Len(planned.pfss) :
              LET r == planned.pfss[k] IN
              IF HistoryFailed(r)
              THEN /\ r.err = PermErr
                   /\ r.snaps = <<>>
                   /\ InList(r, pruneCompleted)
                   /\ r.path \notin PathsOf(prunePending)
                   /\ r.path \notin destroyIssued
              ELSE /\ Strip(r) \in StripAll(prunePending) \cup StripAll(pruneCompleted)
                   /\ (state = "Done" => r.path \in destroyIssued)
        /\ destroyIssued \subseteq PathsOf(planned.pfss)
        /\ state \notin {"Plan", "PlanWait"}
        /\ (state = "ErrPerm" => ctxErr # Nil /\ err = ctxErr)

C11_Witness ==
    /\ planned.ok
    /\ state = "Done"
    /\ Len(planned.pfss) = 2
    /\ HistoryFailed(planned.pfss[1])
    /\ ~HistoryFailed(planned.pfss[2])
    /\ planned.pfss[2].snaps # <<>>
    /\ destroyIssued = {planned.pfss[2].path}
    /\ Len(pruneCompleted) = 2

\* C12: every version listed in a DestroySnapshots request is a version of
\* type Snapshot that the Target lists for the request's filesystem; no
\* version of type Bookmark is ever listed, and a request names a listed
\* filesystem (the policy returning snapshots it was handed).
ListedVersions(path, type) ==
    UNION {{Fsv(inventory[i].versions[j]) :
                j \in {y \in 1..Len(inventory[i].versions) :
                          inventory[i].versions[y].Type = type}} :
            i \in {x \in 1..Len(inventory) : inventory[x].Path = path}}

C12_DestroyOnlySnapshots ==
    lastReq # NoReq =>
        /\ \E i \in 1..Len(inventory) : inventory[i].Path = lastReq.Filesystem
        /\ \A n \in 1..Len(lastReq.Snapshots) :
              /\ lastReq.Snapshots[n].Type = "Snapshot"
              /\ lastReq.Snapshots[n] \in ListedVersions(lastReq.Filesystem, "Snapshot")
              /\ lastReq.Snapshots[n] \notin ListedVersions(lastReq.Filesystem, "Bookmark")

C12_Witness ==
    /\ lastReq # NoReq
    /\ Len(lastReq.Snapshots) = 1
    /\ ListedVersions(lastReq.Filesystem, "Bookmark") # {}
    /\ state = "Done"

\* C13: whenever the last call the pruner made (ListFilesystems,
\* ListFilesystemVersions, SnapshotReplicationStatus, DestroySnapshots)
\* failed, whenever a completed record holds an error, and whenever the
\* pruner is in PlanWait, ExecWait or ErrPerm, that error is in the pruner's
\* err field and Report returns it.
C13_ErrorsInErrAndReport ==
    /\ (lastCall.err # Nil => err = lastCall.err /\ Report = lastCall.err)
    /\ (\A c \in 1..Len(pruneCompleted) :
            pruneCompleted[c].err # Nil => err # Nil /\ Report # Nil)
    /\ (state \in {"PlanWait", "ExecWait", "ErrPerm"} => err # Nil /\ Report = err)

\* C14: a step of WriteStream in which a frame write fails (the consumer is
\* at a WriteFrame call and leaves it without a frame added) ends the
\* invocation with that write error; once WriteStream has returned, no frame
\* is written any more and its result stays, whatever the producer still
\* holds; and WriteStream returns no other error.
AtWriteFrame == (wpc = "handle" /\ wcur.err \in {Nil, EOF}) \/ wpc = "eof"

C14_Step ==
    /\ (AtWriteFrame /\ wpc' # wpc /\ sent' = sent)
            => (wpc' = "done" /\ wret' = ConnWriteErr)
    /\ (AtWriteFrame /\ wpc' # wpc /\ sent' # sent)
            => (Len(sent') = Len(sent) + 1 /\ wret' = Nil)
    /\ (wpc = "done" => wpc' = "done" /\ wret' = wret /\ sent' = sent)
    /\ (wret' # Nil => wret' = ConnWriteErr /\ wpc' = "done")

C14_WriteErrorAborts == [][C14_Step]_vars

C14_Witness ==
    /\ wpc = "done"
    /\ wret = ConnWriteErr
    /\ Len(sent) = 1
    /\ Len(srcData) > BufSize
    /\ ppc[0] = "send"

\* C15: once ReadStream has returned an error, the connection is closed: no
\* further frame is read from it.
C15_Step == (rpc = "done" /\ rret # Nil) => rpos' = rpos

C15_NoReadAfterError == [][C15_Step]_vars


(***************************************************************************)
(* Properties of the buffer pool.                                           *)
(***************************************************************************)
\* C16: after any sequence of Get and Free, every sub-pool holds at most
\* PoolLimit buffers (10 in the source); stated for the sub-pools that hold
\* no storage twice, so that it does not rest on a Buffer freed twice.
Distinct(bufs) == \A i \in 1..Len(bufs), j \in 1..Len(bufs) : bufs[i].id = bufs[j].id => i = j

C16_SubPoolBounded ==
    \A sh \in Shifts : Distinct(pools[sh]) => Len(pools[sh]) <= PoolLimit

\* C17: the Buffer Pool.Get(n) returns has Bytes() of length exactly n, on
\* storage of length at least n.
C17_GetLength ==
    lastGet.called =>
        /\ lastGet.bytesLen = lastGet.minSize
        /\ lastGet.storageLen >= lastGet.minSize

\* C18: a second Free of the same pooled Buffer aborts: no storage is held by
\* the sub-pools more than once, and no two Buffers with storage that
\* callers hold share their storage.
PooledStorage == {<<sh, i>> : sh \in Shifts, i \in 1..(PoolLimit + 1)}

C18_NoDoubleFree ==
    /\ \A x \in PooledStorage, y \in PooledStorage :
          (/\ x # y
           /\ x[2] <= Len(pools[x[1]])
           /\ y[2] <= Len(pools[y[1]]))
              => pools[x[1]][x[2]].id # pools[y[1]][y[2]].id
    /\ \A i \in 1..Len(held), j \in 1..Len(held) :
          (i # j /\ held[i].shiftBuf.len > 0)
              => held[i].shiftBuf.id # held[j].shiftBuf.id


(***************************************************************************)
(* Properties of the pruner factory.                                        *)
(***************************************************************************)
HasKeepLastN(in) == \E i \in 1..Len(in) : in[i].kind = "KeepLastN"
WellFormed(in) == \A i \in 1..Len(in) : in[i].valid

\* C19: for rule sets that can be built, NewPrunerFactory fails exactly when
\* the sender rule set is non-empty and holds no KeepLastN rule; the
\* rejection "must contain last_n or be empty" is returned in exactly that
\* case, whatever the receiver rule set holds; and a factory that is built
\* has the rules of the two sides.
C19_FactoryRejection ==
    (factory.called /\ WellFormed(keepSender) /\ WellFormed(keepReceiver)) =>
        /\ (factory.err # Nil <=> (Len(keepSender) > 0 /\ ~HasKeepLastN(keepSender)))
        /\ factory.err \in {Nil, Keep1Err}
        /\ (factory.err = Nil =>
                /\ factory.senderRules = [i \in 1..Len(keepSender) |-> keepSender[i].kind]
                /\ factory.receiverRules =
                       [i \in 1..Len(keepReceiver) |-> keepReceiver[i].kind])

C19_Witness ==
    /\ factory.called
    /\ WellFormed(keepSender) /\ WellFormed(keepReceiver)
    /\ Len(keepSender) = MaxRules
    /\ ~HasKeepLastN(keepSender)
    /\ HasKeepLastN(keepReceiver)
    /\ factory.err = Keep1Err


(***************************************************************************)
(* Properties of the conversions.                                           *)
(***************************************************************************)
\* C20: a version of kind Snapshot or Bookmark converted to its wire form
\* and back equals the version it started from in kind, name, guid,
\* create_txg and creation instant, whatever the creation instant.
C20_RoundTrip ==
    back.done =>
        /\ ~back.panic
        /\ back.Type = zfsv.Type
        /\ back.Name = zfsv.Name
        /\ back.Guid = zfsv.Guid
        /\ back.CreateTXG = zfsv.CreateTXG
        /\ back.Creation = zfsv.Creation


(***************************************************************************)
(* Termination of the pruner.                                               *)
(***************************************************************************)
Terminal == state \in {"Done", "ErrPerm"}

\* C21: Prune() on a pruner in state Plan eventually reaches Done or ErrPerm
\* and returns, without a panic; and a state Done or ErrPerm never changes
\* again.
C21_Terminates ==
    /\ <>(Terminal /\ ~panicked)
    /\ [][Terminal => state' = state]_vars

\* C22: in state Done the pruner's err is nil, also after a retry; err is
\* non-nil only in PlanWait, ExecWait and ErrPerm.
C22_DoneHasNoErr ==
    /\ (state = "Done" => err = Nil)
    /\ (err # Nil => state \in {"PlanWait", "ExecWait", "ErrPerm"})


(***************************************************************************)
(* The background tasks of the stream.                                      *)
(***************************************************************************)
\* C23: when nothing can run any more, neither the producer of WriteStream
\* nor the frame reader of ReadStream is blocked on the send to its channel;
\* and once WriteStream has returned nothing more is read from its source,
\* once ReadStream has returned nothing more is read from the connection.
C23_NotBlocked ==
    ~ENABLED NextStream =>
        /\ \A l \in Levels : ppc[l] # "send"
        /\ gpc # "send"

C23_Step ==
    /\ (wpc = "done" => rest' = rest)
    /\ (rpc = "done" => rpos' = rpos)

C23_TasksTerminate == [](C23_NotBlocked) /\ [][C23_Step]_vars

=============================================================================
